---- MODULE Spec2Model ----
(***************************************************************************)
(* Model of the per-key token-bucket rate limiter of order-go              *)
(* (internal/interfaces/http/middleware/middleware.go, second revision,    *)
(* lines 560-722): the limiter registry guarded by a sync.RWMutex, the     *)
(* double-checked getLimiter, the request handler and the cleanup          *)
(* goroutine.  Time is an integer clock; one second is TicksPerSecond      *)
(* clock ticks.  Token counts are kept in units of 1/TicksPerSecond token  *)
(* so that refill by a rate given per second is exact on the tick grid.    *)
(***************************************************************************)
EXTENDS Integers, Sequences, FiniteSets, TLC

\* ---------------------------------------------------------------- bounds
TicksPerSecond == 2
MaxTime == 3
MaxRequests == 4
MaxBurstRequests == 32
MaxXffLen == 4
MaxStock == 3
MaxCalls == 3
MaxAmount == 5
MaxParts == 3
TimeoutTicks == 2
MaxWork == 2

\* ------------------------------------------------------ program constants
DefaultRequestsPerSecond == 10
DefaultBurst == 20
DefaultCleanupMinutes == 5
DefaultTTLMinutes == 10
StatusTooManyRequests == 429

Handlers == {1, 2}
Keys == {"a", "b"}
Times == 0..(MaxTime + 1)

Min(x, y) == IF x < y THEN x ELSE y

Minute == 60 * TicksPerSecond

\* A configuration as RateLimiter receives it; durations are in clock ticks.
DefaultRateLimiterConfig ==
    [RequestsPerSecond |-> DefaultRequestsPerSecond,
     Burst             |-> DefaultBurst,
     KeyFunc           |-> "GetRealIP",
     CleanupInterval   |-> DefaultCleanupMinutes * Minute,
     InactiveTTL       |-> DefaultTTLMinutes * Minute]

\* Small configurations under which eviction happens inside the time horizon.
SmallConfigs ==
    {[RequestsPerSecond |-> 1, Burst |-> 2, KeyFunc |-> "GetRealIP",
      CleanupInterval |-> 1, InactiveTTL |-> 2]}

\* RateLimiter's defaulting of the two durations (a zero value means unset).
WithDefaults(c) ==
    [c EXCEPT !.CleanupInterval = IF @ = 0 THEN DefaultCleanupMinutes * Minute ELSE @,
              !.InactiveTTL     = IF @ = 0 THEN DefaultTTLMinutes * Minute ELSE @]

VARIABLES
    cfg,        \* the configuration captured by the middleware's closures
    world,      \* the run's environment: keys requested, handlers serving, last clock value
    budget,     \* requests still to arrive
    clock,      \* time.Now()
    tickC,      \* ticker.C: a tick is waiting in the ticker's channel (capacity 1)
    limiters,   \* map[string]*limiterEntry: key -> [limiter, lastAccess]
    mu,         \* sync.RWMutex: [readers, writer]
    buckets,    \* the rate.Limiter objects ever allocated, by identity (index)
    pc,         \* handler h's position
    key,        \* handler h's key (config.KeyFunc(r))
    now,        \* handler h's local now (getLimiter)
    lim,        \* handler h's limiter pointer (0 is nil)
    allowed,    \* handler h's result of limiter.Allow()
    resp,       \* what the rate-limit handler did to h's response
    path,       \* which return of getLimiter handler h took
    epc,        \* cleanup goroutine's position
    cutoff,     \* cleanupInactiveLimiters' local cutoff
    hist,       \* history: per bucket and per key observations
    stopped,    \* main received its shutdown signal and called server.Shutdown
    req,        \* a request on its way through RealIP and GetRealIP
    product,    \* a Product entity and the outcome of the latest operation on it
    money,      \* a Money operation: its receiver, its argument and what it returned
    tmo         \* a request in the Timeout middleware and the goroutine it started

\* The state of the rate limiter.
limiterVars == <<cfg, world, budget, clock, tickC, limiters, mu, buckets, pc, key, now, lim,
                 allowed, resp, path, epc, cutoff, hist>>

\* The state outside the rate limiter's registry, handlers and cleanup goroutine.
ext == <<stopped, req, product, money, tmo>>

vars == <<cfg, world, budget, clock, tickC, limiters, mu, buckets, pc, key, now, lim,
          allowed, resp, path, epc, cutoff, hist, stopped, req, product, money, tmo>>

\* No request in RealIP, no product, no Money operation, no request in Timeout.
NoRequest == [at |-> "none"]
NoProduct == [op |-> "none"]
NoMoney == [op |-> "none"]
NoTimeout == [mw |-> "idle", next |-> "none", left |-> 0, elapsed |-> 0,
              done |-> FALSE, log |-> <<>>]

\* ------------------------------------------------------- token bucket
\* rate.NewLimiter(r, b): a bucket that starts full.
NewLimiter(r, b, t) ==
    [capacity |-> b * TicksPerSecond, refillRate |-> r,
     tokens |-> b * TicksPerSecond, lastRefill |-> t]

\* Step 1 of Allow: tokens = min(C, tokens + elapsed * R); lastRefill = now.
Refill(bk, t) ==
    [bk EXCEPT !.tokens = Min(bk.capacity, bk.tokens + (t - bk.lastRefill) * bk.refillRate),
               !.lastRefill = t]

\* Allow(): refill, then take one token when at least one is there.
Allow(bk, t) ==
    LET r == Refill(bk, t)
    IN  IF r.tokens >= TicksPerSecond
        THEN [ok |-> TRUE, bucket |-> [r EXCEPT !.tokens = @ - TicksPerSecond]]
        ELSE [ok |-> FALSE, bucket |-> r]

\* ------------------------------------------------------------ registry
\* Faulty variants of the constructor call: the two arguments swapped, the burst passed
\* for both, a burst one too large.
NewLimiterCallSwapped(t) == NewLimiter(cfg.Burst, cfg.RequestsPerSecond, t)
NewLimiterCallBurstAsRate(t) == NewLimiter(cfg.Burst, cfg.Burst, t)
NewLimiterCallOffByOne(t) == NewLimiter(cfg.RequestsPerSecond, cfg.Burst + 1, t)

\* rate.NewLimiter(rate.Limit(config.RequestsPerSecond), config.Burst)
NewLimiterCall(t) == NewLimiter(cfg.RequestsPerSecond, cfg.Burst, t)

\* Faulty variant: the entry built without its lastAccess field (the zero value).
NewEntryNoStamp(id, t) == [limiter |-> id, lastAccess |-> 0]

\* &limiterEntry{limiter: limiter, lastAccess: now}
NewEntry(id, t) == [limiter |-> id, lastAccess |-> t]

\* Faulty variant: the lookup without its store.
StampNone(m, k, t) == m

\* atomic.StoreInt64(&entry.lastAccess, now)
Stamp(m, k, t) == [m EXCEPT ![k].lastAccess = t]

\* Faulty variant: the assignment replaces the map by one that holds only the new entry.
MapPutOnly(m, k, e) == [x \in {k} |-> e]

\* limiters[key] = entry
MapPut(m, k, e) == [x \in DOMAIN m \cup {k} |-> IF x = k THEN e ELSE m[x]]

\* Faulty variant: the comparison against the cutoff with <= for <.
ExpiredInclusive(m, c) == {k \in DOMAIN m : m[k].lastAccess <= c}

\* Faulty variant: the comparison against the cutoff off by one clock tick.
ExpiredLate(m, c) == {k \in DOMAIN m : m[k].lastAccess < c - 1}

\* The loop of cleanupInactiveLimiters: the keys it deletes.
Expired(m, c) == {k \in DOMAIN m : m[k].lastAccess < c}

\* delete(limiters, key) for every expired key
MapDelete(m, ks) == [x \in DOMAIN m \ ks |-> m[x]]

\* ------------------------------------------------------------ response
Untouched == [status |-> 0, contentType |-> "", retryAfter |-> "", code |-> "", next |-> 0]

\* Faulty variant: the 429 branch without its return, falling through to next.ServeHTTP.
RespondFallThrough(ok) ==
    IF ~ok
    THEN [status |-> StatusTooManyRequests, contentType |-> "application/json",
          retryAfter |-> "1", code |-> "RATE_LIMITED", next |-> 1]
    ELSE [Untouched EXCEPT !.next = 1]

\* Faulty variant: the headers set before the call of Allow, on every request.
RespondHeadersFirst(ok) ==
    IF ~ok
    THEN [status |-> StatusTooManyRequests, contentType |-> "application/json",
          retryAfter |-> "1", code |-> "RATE_LIMITED", next |-> 0]
    ELSE [Untouched EXCEPT !.contentType = "application/json", !.retryAfter = "1",
                           !.next = 1]

\* The handler after limiter.Allow(): the 429 branch returns, else next.ServeHTTP.
Respond(ok) ==
    IF ~ok
    THEN [status |-> StatusTooManyRequests, contentType |-> "application/json",
          retryAfter |-> "1", code |-> "RATE_LIMITED", next |-> 0]
    ELSE [Untouched EXCEPT !.next = 1]

\* -------------------------------------------------------------- history
NoLog == [t \in Times |-> 0]

\* What is recorded of a bucket: its key, its creation time, the admissions per
\* clock value, the time of the latest Allow call, the number of calls at that
\* time, whether one of them was rejected, and whether the call before that
\* time came exactly one second earlier and was rejected.
NewHist(k, t) ==
    [key |-> k, born |-> t, admits |-> NoLog, lastCall |-> -1, calls |-> 0,
     rejected |-> FALSE, drained |-> FALSE]

CallHist(bh, t, ok) ==
    IF bh.lastCall = t
    THEN [bh EXCEPT !.admits[t] = @ + (IF ok THEN 1 ELSE 0),
                    !.calls = @ + 1,
                    !.rejected = @ \/ ~ok]
    ELSE [bh EXCEPT !.admits[t] = @ + (IF ok THEN 1 ELSE 0),
                    !.lastCall = t,
                    !.calls = 1,
                    !.drained = (bh.lastCall = t - TicksPerSecond /\ bh.rejected),
                    !.rejected = ~ok]

\* A lookup of key k completed at the current clock value.
Looked(k) == [hist EXCEPT !.lastLookup[k] = clock]

\* ---------------------------------------------------------------- Init
InitCommon ==
    /\ clock = 0
    /\ tickC = FALSE
    /\ limiters = [k \in {} |-> 0]
    /\ mu = [readers |-> {}, writer |-> "none"]
    /\ buckets = <<>>
    /\ pc = [h \in Handlers |-> "idle"]
    /\ key = [h \in Handlers |-> ""]
    /\ now = [h \in Handlers |-> 0]
    /\ lim = [h \in Handlers |-> 0]
    /\ allowed = [h \in Handlers |-> FALSE]
    /\ resp = [h \in Handlers |-> Untouched]
    /\ path = [h \in Handlers |-> "none"]
    /\ epc = "wait"
    /\ cutoff = 0
    /\ hist = [bucket |-> <<>>,
               lastLookup |-> [k \in Keys |-> 0],
               regular |-> [k \in Keys |-> FALSE],
               evictions |-> [k \in Keys |-> 0],
               gone |-> {},
               goneRegular |-> {},
               lateTick |-> FALSE,
               afterStop |-> FALSE]

\* Nothing but the rate limiter runs.
InitExt ==
    /\ stopped = FALSE
    /\ req = NoRequest
    /\ product = NoProduct
    /\ money = NoMoney
    /\ tmo = NoTimeout

\* Two concurrent handlers on one key, a small configuration, eviction in reach.
Init ==
    /\ cfg \in {WithDefaults(c) : c \in SmallConfigs}
    /\ world = [keys |-> {"a"}, handlers |-> Handlers, horizon |-> MaxTime]
    /\ budget = MaxRequests
    /\ InitCommon
    /\ InitExt

\* One handler, the default configuration (10 requests per second, burst 20),
\* one second and a tick of time.  The ticker's first tick, after five minutes,
\* lies beyond this horizon, so the cleanup goroutine takes no step.
InitDefault ==
    /\ cfg = WithDefaults(DefaultRateLimiterConfig)
    /\ world = [keys |-> {"a"}, handlers |-> {1}, horizon |-> TicksPerSecond + 1]
    /\ budget = MaxBurstRequests
    /\ InitCommon
    /\ InitExt

\* ------------------------------------------------------------- handler
\* A request arrives at the middleware RateLimiter returned, while the server
\* accepts requests: key := config.KeyFunc(r), a call through a nil function
\* value when the configuration has no KeyFunc; getLimiter reads the clock.
Request(h, k) ==
    /\ pc[h] \in {"idle", "done"}
    /\ h \in world.handlers
    /\ epc # "new"
    /\ ~stopped
    /\ budget > 0
    /\ budget' = budget - 1
    /\ allowed' = [allowed EXCEPT ![h] = FALSE]
    /\ resp' = [resp EXCEPT ![h] = Untouched]
    /\ IF cfg.KeyFunc = "nil"
       THEN /\ pc' = [pc EXCEPT ![h] = "panic"]
            /\ UNCHANGED <<key, now>>
       ELSE /\ key' = [key EXCEPT ![h] = k]
            /\ now' = [now EXCEPT ![h] = clock]
            /\ pc' = [pc EXCEPT ![h] = "rlock"]
    /\ UNCHANGED <<ext, cfg, world, clock, tickC, limiters, mu, buckets, lim, path, epc, cutoff, hist>>

\* Faulty variant: the first lookup and its store without mu.RLock().
RLockLookupUnlocked(h) ==
    /\ pc[h] = "rlock"
    /\ mu' = [mu EXCEPT !.readers = @ \cup {h}]
    /\ IF key[h] \in DOMAIN limiters
       THEN /\ limiters' = Stamp(limiters, key[h], now[h])
            /\ lim' = [lim EXCEPT ![h] = limiters[key[h]].limiter]
            /\ path' = [path EXCEPT ![h] = "read"]
            /\ hist' = Looked(key[h])
       ELSE UNCHANGED <<limiters, lim, path, hist>>
    /\ pc' = [pc EXCEPT ![h] = "runlock"]
    /\ UNCHANGED <<ext, cfg, world, budget, clock, tickC, buckets, key, now, allowed, resp,
                   epc, cutoff>>

\* mu.RLock(); entry, exists := limiters[key]; if exists, stamp lastAccess.
RLockLookup(h) ==
    /\ pc[h] = "rlock"
    /\ mu.writer = "none"
    /\ mu' = [mu EXCEPT !.readers = @ \cup {h}]
    /\ IF key[h] \in DOMAIN limiters
       THEN /\ limiters' = Stamp(limiters, key[h], now[h])
            /\ lim' = [lim EXCEPT ![h] = limiters[key[h]].limiter]
            /\ path' = [path EXCEPT ![h] = "read"]
            /\ hist' = Looked(key[h])
       ELSE UNCHANGED <<limiters, lim, path, hist>>
    /\ pc' = [pc EXCEPT ![h] = "runlock"]
    /\ UNCHANGED <<ext, cfg, world, budget, clock, tickC, buckets, key, now, allowed, resp,
                   epc, cutoff>>

\* Faulty variant: the shared lock kept when the key was not found, so that
\* mu.Lock() is requested by a holder of the shared lock.
RUnlockKeep(h) ==
    /\ pc[h] = "runlock"
    /\ mu' = [mu EXCEPT !.readers = IF path[h] = "read" THEN @ \ {h} ELSE @]
    /\ pc' = [pc EXCEPT ![h] = IF path[h] = "read" THEN "allow" ELSE "lock"]
    /\ now' = [now EXCEPT ![h] = IF path[h] = "read" THEN 0 ELSE @]
    /\ UNCHANGED <<ext, cfg, world, budget, clock, tickC, limiters, buckets, key, lim,
                   allowed, resp, path, epc, cutoff, hist>>

\* mu.RUnlock(); if exists, return entry.limiter.
RUnlock(h) ==
    /\ pc[h] = "runlock"
    /\ mu' = [mu EXCEPT !.readers = @ \ {h}]
    /\ pc' = [pc EXCEPT ![h] = IF path[h] = "read" THEN "allow" ELSE "lock"]
    /\ now' = [now EXCEPT ![h] = IF path[h] = "read" THEN 0 ELSE @]
    /\ UNCHANGED <<ext, cfg, world, budget, clock, tickC, limiters, buckets, key, lim,
                   allowed, resp, path, epc, cutoff, hist>>

\* Faulty variant: the exclusive section without the second check.
GetLimiterLockedNoRecheck(h) ==
    /\ buckets' = Append(buckets, NewLimiterCall(clock))
    /\ limiters' = MapPut(limiters, key[h], NewEntry(Len(buckets) + 1, now[h]))
    /\ lim' = [lim EXCEPT ![h] = Len(buckets) + 1]
    /\ path' = [path EXCEPT ![h] = "create"]
    /\ hist' = [Looked(key[h]) EXCEPT
                   !.bucket = Append(@, NewHist(key[h], clock)),
                   !.regular[key[h]] = TRUE]

\* The exclusive section of getLimiter: re-check, else create and insert.
GetLimiterLocked(h) ==
    IF key[h] \in DOMAIN limiters
    THEN /\ limiters' = Stamp(limiters, key[h], now[h])
         /\ lim' = [lim EXCEPT ![h] = limiters[key[h]].limiter]
         /\ path' = [path EXCEPT ![h] = "recheck"]
         /\ hist' = Looked(key[h])
         /\ UNCHANGED buckets
    ELSE /\ buckets' = Append(buckets, NewLimiterCall(clock))
         /\ limiters' = MapPut(limiters, key[h], NewEntry(Len(buckets) + 1, now[h]))
         /\ lim' = [lim EXCEPT ![h] = Len(buckets) + 1]
         /\ path' = [path EXCEPT ![h] = "create"]
         /\ hist' = [Looked(key[h]) EXCEPT
                        !.bucket = Append(@, NewHist(key[h], clock)),
                        !.regular[key[h]] = TRUE]

\* mu.Lock(); defer mu.Unlock(); double-check; create.
LockCreate(h) ==
    /\ pc[h] = "lock"
    /\ mu.writer = "none"
    /\ mu.readers = {}
    /\ mu' = [mu EXCEPT !.writer = "handler"]
    /\ GetLimiterLocked(h)
    /\ pc' = [pc EXCEPT ![h] = "unlock"]
    /\ UNCHANGED <<ext, cfg, world, budget, clock, tickC, key, now, allowed, resp, epc, cutoff>>

\* The deferred mu.Unlock() on return from getLimiter.
Unlock(h) ==
    /\ pc[h] = "unlock"
    /\ mu' = [mu EXCEPT !.writer = "none"]
    /\ pc' = [pc EXCEPT ![h] = "allow"]
    /\ now' = [now EXCEPT ![h] = 0]
    /\ UNCHANGED <<ext, cfg, world, budget, clock, tickC, limiters, buckets, key, lim,
                   allowed, resp, path, epc, cutoff, hist>>

\* limiter.Allow(): the call returns its verdict; key and limiter are not
\* used again by the handler.
LimiterAllow(h) ==
    /\ pc[h] = "allow"
    /\ LET a == Allow(buckets[lim[h]], clock)
       IN  /\ buckets' = [buckets EXCEPT ![lim[h]] = a.bucket]
           /\ allowed' = [allowed EXCEPT ![h] = a.ok]
           /\ hist' = [hist EXCEPT !.bucket[lim[h]] = CallHist(@, clock, a.ok)]
    /\ pc' = [pc EXCEPT ![h] = "respond"]
    /\ key' = [key EXCEPT ![h] = ""]
    /\ lim' = [lim EXCEPT ![h] = 0]
    /\ path' = [path EXCEPT ![h] = "none"]
    /\ UNCHANGED <<ext, cfg, world, budget, clock, tickC, limiters, mu, now, resp, epc, cutoff>>

\* if !allowed { 429 ...; return }; next.ServeHTTP(w, r)
WriteResponse(h) ==
    /\ pc[h] = "respond"
    /\ resp' = [resp EXCEPT ![h] = Respond(allowed[h])]
    /\ pc' = [pc EXCEPT ![h] = "done"]
    /\ UNCHANGED <<ext, cfg, world, budget, clock, tickC, limiters, mu, buckets, key, now,
                   lim, allowed, path, epc, cutoff, hist>>

\* ------------------------------------------------------------- evictor
\* case <-ticker.C: cleanupInactiveLimiters reads the clock and computes cutoff.
TickFire ==
    /\ epc = "wait"
    /\ tickC
    /\ tickC' = FALSE
    /\ cutoff' = clock - cfg.InactiveTTL
    /\ epc' = "lock"
    /\ hist' = [hist EXCEPT !.lateTick = stopped]
    /\ UNCHANGED <<ext, cfg, world, budget, clock, limiters, mu, buckets, pc, key, now,
                   lim, allowed, resp, path>>

\* mu.Lock(); the loop over the map, deleting every expired entry.
Cleanup ==
    /\ epc = "lock"
    /\ mu.writer = "none"
    /\ mu.readers = {}
    /\ mu' = [mu EXCEPT !.writer = "evictor"]
    /\ LET gone == Expired(limiters, cutoff)
       IN  /\ limiters' = MapDelete(limiters, gone)
           /\ hist' = [hist EXCEPT
                          !.evictions = [k \in Keys |-> IF k \in gone THEN @[k] + 1 ELSE @[k]],
                          !.gone = gone,
                          !.goneRegular = {k \in gone : hist.regular[k]},
                          !.afterStop = @ \/ (hist.lateTick /\ gone # {})]
    /\ epc' = "unlock"
    /\ UNCHANGED <<ext, cfg, world, budget, clock, tickC, buckets, pc, key, now, lim, allowed,
                   resp, path, cutoff>>

\* The deferred mu.Unlock() of cleanupInactiveLimiters.
CleanupUnlock ==
    /\ epc = "unlock"
    /\ mu' = [mu EXCEPT !.writer = "none"]
    /\ epc' = "wait"
    /\ cutoff' = 0
    /\ hist' = [hist EXCEPT !.gone = {}, !.goneRegular = {}, !.lateTick = FALSE]
    /\ UNCHANGED <<ext, cfg, world, budget, clock, tickC, limiters, buckets, pc, key, now, lim,
                   allowed, resp, path>>

\* --------------------------------------------------------------- clock
\* Time passes.  The ticker sends on its channel every CleanupInterval (a tick
\* is dropped when one is still waiting); an entry that went more than ttl/2
\* without a lookup is no longer regularly looked up.
Tick ==
    /\ clock < world.horizon
    /\ clock' = clock + 1
    /\ tickC' = (tickC \/ (epc \notin {"new", "start", "panic"}
                            /\ (clock + 1) % cfg.CleanupInterval = 0))
    /\ hist' = [hist EXCEPT !.regular =
                   [k \in Keys |-> @[k] /\ 2 * (clock + 1 - hist.lastLookup[k]) <= cfg.InactiveTTL]]
    /\ UNCHANGED <<ext, cfg, world, budget, limiters, mu, buckets, pc, key, now, lim,
                   allowed, resp, path, epc, cutoff>>

HandlerStep(h) ==
    \/ \E k \in world.keys : Request(h, k)
    \/ RLockLookup(h)
    \/ RUnlock(h)
    \/ LockCreate(h)
    \/ Unlock(h)
    \/ LimiterAllow(h)
    \/ WriteResponse(h)

Next ==
    \/ \E h \in Handlers : HandlerStep(h)
    \/ TickFire
    \/ Cleanup
    \/ CleanupUnlock
    \/ Tick

Spec == Init /\ [][Next]_vars

NextDefault ==
    \/ \E h \in Handlers : HandlerStep(h)
    \/ Tick

SpecDefault == InitDefault /\ [][NextDefault]_vars

\* The steps of a request through getLimiter and Allow(), and the scheduling they can count
\* on: a goroutine that can take a step eventually takes one, be it a handler
\* or the cleanup goroutine inside cleanupInactiveLimiters.
Progress(h) ==
    \/ RLockLookup(h)
    \/ RUnlock(h)
    \/ LockCreate(h)
    \/ Unlock(h)
    \/ LimiterAllow(h)

Fairness ==
    /\ \A h \in Handlers : WF_vars(Progress(h))
    /\ WF_vars(Cleanup)
    /\ WF_vars(CleanupUnlock)

\* Two concurrent handlers on one key with eviction in reach, as in Init, and
\* two requests fewer.
InitFair ==
    /\ cfg \in {WithDefaults(c) : c \in SmallConfigs}
    /\ world = [keys |-> {"a"}, handlers |-> Handlers, horizon |-> MaxTime]
    /\ budget = MaxRequests - 2
    /\ InitCommon
    /\ InitExt

SpecFair == InitFair /\ [][Next]_vars /\ Fairness

\* A fairly firing ticker: time passes, and the cleanup goroutine receives a
\* tick that waits in ticker.C (its select has no other ready case).
FairTicker ==
    /\ Fairness
    /\ WF_vars(Tick)
    /\ WF_vars(TickFire)

\* The small configuration, and one whose ticks are further apart than its TTL.
TickerConfigs ==
    SmallConfigs \cup
    {[RequestsPerSecond |-> 1, Burst |-> 2, KeyFunc |-> "GetRealIP",
      CleanupInterval |-> 2, InactiveTTL |-> 1]}

\* One handler on one key, with a horizon one tick beyond TTL plus one
\* cleanup interval.
InitTicker ==
    /\ cfg \in {WithDefaults(c) : c \in TickerConfigs}
    /\ world = [keys |-> {"a"}, handlers |-> {1}, horizon |-> MaxTime + 1]
    /\ budget = MaxRequests - 2
    /\ InitCommon
    /\ InitExt

SpecTicker == InitTicker /\ [][Next]_vars /\ FairTicker

\* One handler serving two keys, the small configuration: a pass of the
\* cleanup goroutine meets entries of different age.
InitPair ==
    /\ cfg \in {WithDefaults(c) : c \in SmallConfigs}
    /\ world = [keys |-> Keys, handlers |-> {1}, horizon |-> MaxTime]
    /\ budget = MaxRequests
    /\ InitCommon
    /\ InitExt

SpecPair == InitPair /\ [][Next]_vars

\* ------------------------------------------------- construction, start
\* The configurations a caller can pass: any sign of the rate, the burst and
\* the cleanup interval, with or without a key function.
AnyConfigs ==
    [RequestsPerSecond : {-1, 0, 1}, Burst : {-1, 0, 2}, KeyFunc : {"nil", "GetRealIP"},
     CleanupInterval : {-1, 0, 1}, InactiveTTL : {2}]

\* RateLimiter(config): the two durations are defaulted, the map is made, the
\* cleanup goroutine is launched and the middleware is returned.  Nothing
\* else of the configuration is looked at, and there is no error to return.
Construct ==
    /\ epc = "new"
    /\ cfg' = WithDefaults(cfg)
    /\ epc' = "start"
    /\ UNCHANGED <<ext, world, budget, clock, tickC, limiters, mu, buckets, pc, key, now,
                   lim, allowed, resp, path, cutoff, hist>>

\* The cleanup goroutine's first statement, time.NewTicker(config.CleanupInterval),
\* which panics for a non-positive interval; a panic in this goroutine ends
\* the process.
StartTicker ==
    /\ epc = "start"
    /\ epc' = IF cfg.CleanupInterval <= 0 THEN "panic" ELSE "wait"
    /\ UNCHANGED <<ext, cfg, world, budget, clock, tickC, limiters, mu, buckets, pc, key,
                   now, lim, allowed, resp, path, cutoff, hist>>

\* One handler and any configuration, before RateLimiter is called.
InitConfig ==
    /\ cfg \in AnyConfigs
    /\ world = [keys |-> {"a"}, handlers |-> {1}, horizon |-> MaxTime]
    /\ budget = MaxRequests
    /\ clock = 0
    /\ tickC = FALSE
    /\ limiters = [k \in {} |-> 0]
    /\ mu = [readers |-> {}, writer |-> "none"]
    /\ buckets = <<>>
    /\ pc = [h \in Handlers |-> "idle"]
    /\ key = [h \in Handlers |-> ""]
    /\ now = [h \in Handlers |-> 0]
    /\ lim = [h \in Handlers |-> 0]
    /\ allowed = [h \in Handlers |-> FALSE]
    /\ resp = [h \in Handlers |-> Untouched]
    /\ path = [h \in Handlers |-> "none"]
    /\ epc = "new"
    /\ cutoff = 0
    /\ hist = [bucket |-> <<>>,
               lastLookup |-> [k \in Keys |-> 0],
               regular |-> [k \in Keys |-> FALSE],
               evictions |-> [k \in Keys |-> 0],
               gone |-> {},
               goneRegular |-> {},
               lateTick |-> FALSE,
               afterStop |-> FALSE]
    /\ InitExt

\* The process runs until a goroutine panics outside a handler.
Running == epc # "panic"

NextConfig ==
    \/ Construct
    \/ StartTicker
    \/ Running /\ \E h \in Handlers : HandlerStep(h)
    \/ Running /\ TickFire
    \/ Running /\ Cleanup
    \/ Running /\ CleanupUnlock
    \/ Running /\ Tick

SpecConfig == InitConfig /\ [][NextConfig]_vars

\* ------------------------------------------------------------ shutdown
\* main: <-ctx.Done(); server.Shutdown(shutdownCtx).  The server stops accepting
\* requests and waits for those in flight.  The context of the cleanup
\* goroutine is not reachable from here: RateLimiter drops its cancel function.
Shutdown ==
    /\ ~stopped
    /\ stopped' = TRUE
    /\ UNCHANGED <<req, product, money, tmo>>
    /\ UNCHANGED limiterVars

NextStop ==
    \/ Next
    \/ Shutdown

SpecStop == Init /\ [][NextStop]_vars

\* ------------------------------------------------------ key derivation
\* Header values and addresses are sequences of symbols: "A" and "B" stand for
\* the text of two IP addresses (203.0.113.1 and 10.0.0.1), "x" for text that
\* is no IP address (not-an-ip), "," and " " for themselves; in a peer
\* address "P" is the host, ":" the separator and "n" the port.
HeaderChars == {"A", "B", "x", ",", " "}

StringsUpTo(n) == UNION {[1..k -> HeaderChars] : k \in 0..n}

\* The values of X-Forwarded-For, of X-Real-IP and of r.RemoteAddr tried.
XForwardedForValues == StringsUpTo(MaxXffLen)
XRealIPValues == {<<>>, <<"A">>, <<"B">>, <<" ", "B", " ">>, <<"x">>, <<" ">>, <<"A", ",", "B">>}
RemoteAddrs == {<<"P", ":", "n">>, <<"P">>}

\* strings.Index(s, ch) + 1: the position of the first ch in s, 0 when there is none.
RECURSIVE IndexFrom(_, _, _)
IndexFrom(s, ch, i) ==
    IF i > Len(s) THEN 0
    ELSE IF s[i] = ch THEN i
    ELSE IndexFrom(s, ch, i + 1)

\* strings.LastIndex(s, ch) + 1.
RECURSIVE LastIndexFrom(_, _, _)
LastIndexFrom(s, ch, i) ==
    IF i < 1 THEN 0
    ELSE IF s[i] = ch THEN i
    ELSE LastIndexFrom(s, ch, i - 1)

\* Faulty variant: the last element of strings.Split(s, ",").
SplitLast(s) ==
    LET i == LastIndexFrom(s, ",", Len(s))
    IN  SubSeq(s, i + 1, Len(s))

\* strings.Split(s, ",")[0]
SplitFirst(s) ==
    LET i == IndexFrom(s, ",", 1)
    IN  IF i = 0 THEN s ELSE SubSeq(s, 1, i - 1)

\* strings.TrimSpace(s)
RECURSIVE TrimLeft(_)
TrimLeft(s) == IF s # <<>> /\ Head(s) = " " THEN TrimLeft(Tail(s)) ELSE s

RECURSIVE TrimRight(_)
TrimRight(s) ==
    IF s # <<>> /\ s[Len(s)] = " " THEN TrimRight(SubSeq(s, 1, Len(s) - 1)) ELSE s

TrimSpace(s) == TrimRight(TrimLeft(s))

\* net.ParseIP(s) != nil: the text of exactly one address and nothing else.
ParseIP(s) == Len(s) = 1 /\ s[1] \in {"A", "B"}

\* host, _, _ := net.SplitHostPort(addr): the text before the last colon, and
\* the empty host with an error when addr has no port.
SplitHostPort(addr) ==
    LET i == LastIndexFrom(addr, ":", Len(addr))
    IN  IF i = 0 THEN <<>> ELSE SubSeq(addr, 1, i - 1)

\* Faulty variant: X-Real-IP tried also when X-Forwarded-For gave no IP address.
RealIPCandidateFallThrough(xff, xri) ==
    IF xff # <<>> /\ ParseIP(TrimSpace(SplitFirst(xff))) THEN TrimSpace(SplitFirst(xff))
    ELSE IF xri # <<>> THEN TrimSpace(xri)
    ELSE <<>>

\* RealIP's candidate: the first entry of X-Forwarded-For when that header is
\* not empty, else X-Real-IP, trimmed.
RealIPCandidate(xff, xri) ==
    IF xff # <<>> THEN TrimSpace(SplitFirst(xff))
    ELSE IF xri # <<>> THEN TrimSpace(xri)
    ELSE <<>>

\* RealIP: the candidate is stored under RealIPKey when it parses as an IP;
\* the empty sequence stands for no value in the context.
RealIPValue(xff, xri) ==
    LET c == RealIPCandidate(xff, xri)
    IN  IF c # <<>> /\ ParseIP(c) THEN c ELSE <<>>

\* GetRealIP(r)
GetRealIP(ctxIP, addr) ==
    IF ctxIP # <<>> THEN ctxIP
    ELSE IF SplitHostPort(addr) # <<>> THEN SplitHostPort(addr)
    ELSE addr

\* A request with its headers and peer address, before RealIP.
InitKey ==
    /\ req \in [at : {"realip"}, xff : XForwardedForValues, xri : XRealIPValues,
                 remoteAddr : RemoteAddrs, ctxIP : {<<>>}, key : {<<>>}]
    /\ stopped = FALSE
    /\ product = NoProduct
    /\ money = NoMoney
    /\ tmo = NoTimeout
    /\ cfg = WithDefaults(DefaultRateLimiterConfig)
    /\ world = [keys |-> {}, handlers |-> {}, horizon |-> 0]
    /\ budget = 0
    /\ InitCommon

\* The RealIP middleware, first in main's chain.
RealIP ==
    /\ req.at = "realip"
    /\ req' = [req EXCEPT !.ctxIP = RealIPValue(req.xff, req.xri), !.at = "ratelimit"]
    /\ UNCHANGED <<stopped, product, money, tmo>>
    /\ UNCHANGED limiterVars

\* The rate limiter's handler: key := config.KeyFunc(r), which is GetRealIP.
KeyFunc ==
    /\ req.at = "ratelimit"
    /\ req' = [req EXCEPT !.key = GetRealIP(req.ctxIP, req.remoteAddr), !.at = "keyed"]
    /\ UNCHANGED <<stopped, product, money, tmo>>
    /\ UNCHANGED limiterVars

NextKey ==
    \/ RealIP
    \/ KeyFunc

SpecKey == InitKey /\ [][NextKey]_vars

\* ------------------------------------------------------------- product
\* The rate limiter at rest, for the specifications of the domain entities.
LimiterAtRest ==
    /\ cfg = WithDefaults(DefaultRateLimiterConfig)
    /\ world = [keys |-> {}, handlers |-> {}, horizon |-> 0]
    /\ budget = 0
    /\ InitCommon

Names == {"", "cup", "mug"}
Prices == {0, 1, 2}
\* A Go int (64 bits wide) that lies within a small offset of zero or of either
\* end of its range: the value is top * 2^63 + off, with top in {-1, 0, 1}.
GoInt(n) == [top |-> 0, off |-> n]
MaxInt == [top |-> 1, off |-> -1]

\* Two's complement wrap-around of top * 2^63 + off into the range of int.
WrapInt(top, off) ==
    [top |-> IF top = 1 /\ off >= 0 THEN -1
             ELSE IF top = -1 /\ off < 0 THEN 1
             ELSE IF top \in {-2, 2} THEN 0
             ELSE top,
     off |-> off]

\* x + y and x - y on int, without overflow detection, as Go computes them.
AddInt(x, y) == WrapInt(x.top + y.top, x.off + y.off)
SubInt(x, y) == WrapInt(x.top - y.top, x.off - y.off)

\* x < y on int.
LessInt(x, y) == x.top < y.top \/ (x.top = y.top /\ x.off < y.off)

Quantities == {GoInt(n) : n \in -1..MaxStock} \cup {MaxInt}

InitProduct ==
    /\ product = NoProduct
    /\ stopped = FALSE
    /\ req = NoRequest
    /\ money = NoMoney
    /\ tmo = NoTimeout
    /\ LimiterAtRest

\* Nothing but the product changes.
OtherThanProduct ==
    /\ UNCHANGED <<stopped, req, money, tmo>>
    /\ UNCHANGED limiterVars

\* A method of the product returned with error e and left the product alone.
Failed(o, e) == [product EXCEPT !.op = o, !.err = e, !.calls = @ + 1]

\* NewProduct(name, sku, price, stockQuantity); a nil product stays "none".
NewProduct(name, price, stock) ==
    /\ product.op = "none"
    /\ name # ""
    /\ price > 0
    /\ ~LessInt(stock, GoInt(0))
    /\ product' = [op |-> "NewProduct", err |-> "", name |-> name, price |-> price,
                   stock |-> stock,
                   status |-> IF stock = GoInt(0) THEN "out_of_stock" ELSE "active",
                   discontinued |-> FALSE, calls |-> 0]
    /\ OtherThanProduct

\* (p *Product).DeductStock(quantity)
DeductStock(q) ==
    /\ product.op # "none"
    /\ product' =
           IF LessInt(q, GoInt(0)) THEN Failed("DeductStock", "ErrNegativeStockQuantity")
           ELSE IF LessInt(product.stock, q)
                THEN Failed("DeductStock", "ErrInsufficientStock")
           ELSE [product EXCEPT !.op = "DeductStock", !.err = "", !.calls = @ + 1,
                                !.stock = SubInt(@, q),
                                !.status = IF SubInt(product.stock, q) = GoInt(0)
                                           THEN "out_of_stock" ELSE @]
    /\ OtherThanProduct

\* (p *Product).AddStock(quantity)
AddStock(q) ==
    /\ product.op # "none"
    /\ product' =
           IF LessInt(q, GoInt(0)) THEN Failed("AddStock", "ErrNegativeStockQuantity")
           ELSE [product EXCEPT !.op = "AddStock", !.err = "", !.calls = @ + 1,
                                !.stock = AddInt(@, q),
                                !.status = IF /\ @ = "out_of_stock"
                                              /\ LessInt(GoInt(0), AddInt(product.stock, q))
                                           THEN "active" ELSE @]
    /\ OtherThanProduct

\* (p *Product).SetPrice(price)
SetPrice(price) ==
    /\ product.op # "none"
    /\ product' =
           IF price <= 0 THEN Failed("SetPrice", "ErrInvalidProductPrice")
           ELSE [product EXCEPT !.op = "SetPrice", !.err = "", !.calls = @ + 1, !.price = price]
    /\ OtherThanProduct

\* (p *Product).Activate()
Activate ==
    /\ product.op # "none"
    /\ product' =
           IF product.stock = GoInt(0) THEN Failed("Activate", "ErrInsufficientStock")
           ELSE [product EXCEPT !.op = "Activate", !.err = "", !.calls = @ + 1, !.status = "active"]
    /\ OtherThanProduct

\* (p *Product).Deactivate()
Deactivate ==
    /\ product.op # "none"
    /\ product' = [product EXCEPT !.op = "Deactivate", !.err = "", !.calls = @ + 1, !.status = "inactive"]
    /\ OtherThanProduct

\* (p *Product).Discontinue()
Discontinue ==
    /\ product.op # "none"
    /\ product' = [product EXCEPT !.op = "Discontinue", !.err = "", !.calls = @ + 1,
                                  !.status = "discontinued", !.discontinued = TRUE]
    /\ OtherThanProduct

\* (p *Product).UpdateDetails(name, description, category)
UpdateDetails(name) ==
    /\ product.op # "none"
    /\ product' = [product EXCEPT !.op = "UpdateDetails", !.err = "", !.calls = @ + 1,
                                  !.name = IF name # "" THEN name ELSE @]
    /\ OtherThanProduct

\* (p *Product).IsAvailable()
IsAvailable == product.status = "active" /\ LessInt(GoInt(0), product.stock)

\* A run makes up to MaxCalls method calls on the product it has built.
CallsLeft == product.op # "none" /\ product.calls < MaxCalls

NextProduct ==
    \/ \E name \in Names, price \in Prices, q \in Quantities : NewProduct(name, price, q)
    \/ CallsLeft /\ \E q \in Quantities : DeductStock(q)
    \/ CallsLeft /\ \E q \in Quantities : AddStock(q)
    \/ CallsLeft /\ \E price \in Prices : SetPrice(price)
    \/ CallsLeft /\ Activate
    \/ CallsLeft /\ Deactivate
    \/ CallsLeft /\ Discontinue
    \/ CallsLeft /\ \E name \in Names : UpdateDetails(name)

SpecProduct == InitProduct /\ [][NextProduct]_vars

\* --------------------------------------------------------------- money
Amounts == (-MaxAmount)..MaxAmount
Currencies == {"USD", "EUR"}
Counts == -1..MaxParts
Ratios == {-1, 0, 1, 2}
RatioLists == UNION {[1..k -> Ratios] : k \in 0..MaxParts}

AbsInt(x) == IF x < 0 THEN -x ELSE x

\* Go's integer division and remainder: the quotient is truncated toward zero
\* and the remainder has the sign of the dividend.
GoDiv(x, y) ==
    LET q == AbsInt(x) \div AbsInt(y)
    IN  IF (x < 0) = (y < 0) THEN q ELSE -q

GoMod(x, y) == x - y * GoDiv(x, y)

\* NewMoney(amount, currency)
NewMoney(amount, c) == [Amount |-> amount, Currency |-> c]

\* (m Money).Split(n): what it returns, or the run-time panic of make([]Money, n)
\* for a negative n.
Split(m, n) ==
    IF n = 0 THEN [parts |-> <<>>, err |-> "ErrDivisionByZero", panic |-> FALSE]
    ELSE IF n < 0 THEN [parts |-> <<>>, err |-> "", panic |-> TRUE]
    ELSE LET baseAmount == GoDiv(m.Amount, n)
             remainder == GoMod(m.Amount, n)
         IN  [parts |-> [i \in 1..n |->
                            NewMoney(IF i - 1 < remainder THEN baseAmount + 1 ELSE baseAmount,
                                     m.Currency)],
              err |-> "", panic |-> FALSE]

RECURSIVE SumSeq(_)
SumSeq(q) == IF q = <<>> THEN 0 ELSE Head(q) + SumSeq(Tail(q))

\* (m Money).Allocate(ratios): what it returns.  An empty list has the total
\* 0 and returns the error, so allocated[0] exists wherever it is used.
Allocate(m, ratios) ==
    LET totalRatio == SumSeq(ratios)
        share(i) == GoDiv(m.Amount * ratios[i], totalRatio)
        remainder == m.Amount - SumSeq([i \in 1..Len(ratios) |-> share(i)])
    IN  IF totalRatio = 0 THEN [parts |-> <<>>, err |-> "ErrDivisionByZero", panic |-> FALSE]
        ELSE [parts |-> [i \in 1..Len(ratios) |->
                            NewMoney(IF i = 1 /\ remainder > 0
                                     THEN share(i) + remainder ELSE share(i),
                                     m.Currency)],
              err |-> "", panic |-> FALSE]

InitMoney ==
    /\ money = NoMoney
    /\ tmo = NoTimeout
    /\ stopped = FALSE
    /\ req = NoRequest
    /\ product = NoProduct
    /\ LimiterAtRest

\* A call of Split.
CallSplit(m, n) ==
    /\ money.op = "none"
    /\ money' = [op |-> "Split", m |-> m, n |-> n, ratios |-> <<>>, out |-> Split(m, n)]
    /\ UNCHANGED <<stopped, req, product, tmo>>
    /\ UNCHANGED limiterVars

\* A call of Allocate.
CallAllocate(m, ratios) ==
    /\ money.op = "none"
    /\ money' = [op |-> "Allocate", m |-> m, n |-> 0, ratios |-> ratios,
                 out |-> Allocate(m, ratios)]
    /\ UNCHANGED <<stopped, req, product, tmo>>
    /\ UNCHANGED limiterVars

NextMoney ==
    \/ \E a \in Amounts, c \in Currencies, n \in Counts : CallSplit(NewMoney(a, c), n)
    \/ \E a \in Amounts, c \in Currencies, rs \in RatioLists : CallAllocate(NewMoney(a, c), rs)

SpecMoney == InitMoney /\ [][NextMoney]_vars

\* ------------------------------------------------------------- timeout
\* One request in the handler returned by Timeout(timeout)(next): mw is the
\* position of the middleware's own goroutine, next that of the goroutine it
\* starts for the downstream handler, left the work the downstream handler
\* still does before it responds, elapsed the time since context.WithTimeout,
\* done whether the channel is closed, and log the calls made on the
\* http.ResponseWriter w, in order, each with the goroutine that made it.
InitTimeout ==
    /\ tmo = NoTimeout
    /\ stopped = FALSE
    /\ req = NoRequest
    /\ product = NoProduct
    /\ money = NoMoney
    /\ LimiterAtRest

\* Nothing but the request in Timeout changes.
OtherThanTimeout ==
    /\ UNCHANGED <<stopped, req, product, money>>
    /\ UNCHANGED limiterVars

\* A call on w by goroutine g.
Wrote(g, op) == Append(tmo.log, [by |-> g, op |-> op])

\* ctx, cancel := context.WithTimeout(...); done := make(chan struct{}); go func() {...}()
TimeoutServe(work) ==
    /\ tmo.mw = "idle"
    /\ tmo' = [tmo EXCEPT !.mw = "select", !.next = "run", !.left = work]
    /\ OtherThanTimeout

\* Time passes; the context's deadline is reached after TimeoutTicks.
Elapse ==
    /\ tmo.mw # "idle"
    /\ tmo.elapsed < TimeoutTicks
    /\ tmo' = [tmo EXCEPT !.elapsed = @ + 1]
    /\ OtherThanTimeout

\* <-ctx.Done() is ready.
CtxDone == tmo.elapsed >= TimeoutTicks

\* next.ServeHTTP(w, r.WithContext(ctx)): the downstream handler at work.
NextWork ==
    /\ tmo.next = "run"
    /\ tmo.left > 0
    /\ tmo' = [tmo EXCEPT !.left = @ - 1]
    /\ OtherThanTimeout

\* The downstream handler responds: w.Header().Set, w.WriteHeader, w.Write,
\* as the handler of RateLimiter does further down the chain.
NextSetHeader ==
    /\ tmo.next = "run"
    /\ tmo.left = 0
    /\ tmo' = [tmo EXCEPT !.next = "status", !.log = Wrote("next", "Header")]
    /\ OtherThanTimeout

NextWriteHeader ==
    /\ tmo.next = "status"
    /\ tmo' = [tmo EXCEPT !.next = "body", !.log = Wrote("next", "WriteHeader")]
    /\ OtherThanTimeout

NextWrite ==
    /\ tmo.next = "body"
    /\ tmo' = [tmo EXCEPT !.next = "close", !.log = Wrote("next", "Write")]
    /\ OtherThanTimeout

\* close(done)
CloseDone ==
    /\ tmo.next = "close"
    /\ tmo' = [tmo EXCEPT !.next = "end", !.done = TRUE]
    /\ OtherThanTimeout

\* select { case <-done: return
SelectDone ==
    /\ tmo.mw = "select"
    /\ tmo.done
    /\ tmo' = [tmo EXCEPT !.mw = "returned"]
    /\ OtherThanTimeout

\* case <-ctx.Done(): w.Header().Set("Content-Type", "application/json")
SelectCtxDone ==
    /\ tmo.mw = "select"
    /\ CtxDone
    /\ tmo' = [tmo EXCEPT !.mw = "status", !.log = Wrote("timeout", "Header")]
    /\ OtherThanTimeout

\* w.WriteHeader(http.StatusGatewayTimeout)
TimeoutWriteHeader ==
    /\ tmo.mw = "status"
    /\ tmo' = [tmo EXCEPT !.mw = "body", !.log = Wrote("timeout", "WriteHeader")]
    /\ OtherThanTimeout

\* w.Write([]byte(`{... "code": "TIMEOUT" ...}`)) and the return of the handler.
TimeoutWrite ==
    /\ tmo.mw = "body"
    /\ tmo' = [tmo EXCEPT !.mw = "returned", !.log = Wrote("timeout", "Write")]
    /\ OtherThanTimeout

NextTimeout ==
    \/ \E work \in 0..MaxWork : TimeoutServe(work)
    \/ Elapse
    \/ NextWork
    \/ NextSetHeader
    \/ NextWriteHeader
    \/ NextWrite
    \/ CloseDone
    \/ SelectDone
    \/ SelectCtxDone
    \/ TimeoutWriteHeader
    \/ TimeoutWrite

SpecTimeout == InitTimeout /\ [][NextTimeout]_vars

\* ================================================================ claims
BucketIds == 1..Len(buckets)

\* The buckets ever constructed for key k.
Created(k) == {b \in BucketIds : hist.bucket[b].key = k}

\* Handler h is past getLimiter's lookup and holds the limiter it returns.
Holds(h) == lim[h] # 0

RECURSIVE SumLog(_, _, _)
SumLog(log, s, e) == IF s > e THEN 0 ELSE log[s] + SumLog(log, s + 1, e)

\* Admissions by bucket b, and for key k, at clock values s..e.
BucketAdmits(b, s, e) == SumLog(hist.bucket[b].admits, s, e)

RECURSIVE SumBuckets(_, _, _)
SumBuckets(bs, s, e) ==
    IF bs = {} THEN 0
    ELSE LET b == CHOOSE x \in bs : TRUE
         IN  BucketAdmits(b, s, e) + SumBuckets(bs \ {b}, s, e)

KeyAdmits(k, s, e) == SumBuckets(Created(k), s, e)

\* The bound Burst + RequestsPerSecond * T for a window of e - s ticks, in the
\* buckets' unit of 1/TicksPerSecond token.
RateBound(s, e) == cfg.Burst * TicksPerSecond + cfg.RequestsPerSecond * (e - s)

\* C1: as long as no entry of a key has been evicted, at most one limiter has
\* been constructed for the key, it is the one in the registry, and every
\* handler that getLimiter has answered for that key holds that same limiter.
C1_SingleConstruction ==
    \A k \in Keys :
        hist.evictions[k] = 0 =>
            /\ Cardinality(Created(k)) <= 1
            /\ \A h \in Handlers :
                   (Holds(h) /\ key[h] = k) =>
                       /\ k \in DOMAIN limiters
                       /\ limiters[k].limiter = lim[h]
                       /\ Created(k) = {lim[h]}

\* Two handlers raced for the absent key through the exclusive section: one
\* constructed, the other found the entry at the second check.
C1_Witness ==
    \E g, h \in Handlers :
        /\ path[g] = "create" /\ path[h] = "recheck"
        /\ key[g] = key[h]
        /\ lim[g] = lim[h]
        /\ hist.evictions[key[g]] = 0

\* C2 as claimed: for every key and every window s..e the admissions for that
\* key are at most Burst + RequestsPerSecond * T, eviction and re-creation of
\* the key's entry included.
C2_RateBoundPerKey ==
    \A k \in Keys : \A s \in 0..clock : \A e \in s..clock :
        KeyAdmits(k, s, e) * TicksPerSecond <= RateBound(s, e)

\* C2 amended: for every bucket and every window s..e the admissions decided by
\* that bucket are at most Burst + RequestsPerSecond * T.
C2_RateBoundPerBucket ==
    \A b \in BucketIds : \A s \in 0..clock : \A e \in s..clock :
        BucketAdmits(b, s, e) * TicksPerSecond <= RateBound(s, e)

\* A bucket admitted a full burst and then exactly what the refill allows.
C2_Witness ==
    \E b \in BucketIds : \E s \in 0..clock : \E e \in (s + 1)..clock :
        /\ BucketAdmits(b, s, s) = cfg.Burst
        /\ BucketAdmits(b, s, e) * TicksPerSecond = RateBound(s, e)

\* C3: while every Allow call on a bucket came at the bucket's creation time
\* (no time elapsed), the admitted calls are the first min(N, Burst) of the N.
C3_Burst ==
    \A b \in BucketIds :
        LET bh == hist.bucket[b]
        IN  bh.lastCall = bh.born =>
                bh.admits[bh.born] = Min(bh.calls, cfg.Burst)

\* 25 back-to-back calls on the fresh bucket: 20 admitted, 5 rejected.
C3_Witness ==
    \E b \in BucketIds :
        LET bh == hist.bucket[b]
        IN  /\ bh.lastCall = bh.born
            /\ bh.calls = 25
            /\ bh.admits[bh.born] = 20

\* C4: when a bucket rejected a call and its next calls come exactly one second
\* later, the admitted ones are the first min(N, RequestsPerSecond) of those N.
C4_Refill ==
    \A b \in BucketIds :
        LET bh == hist.bucket[b]
        IN  bh.drained =>
                bh.admits[bh.lastCall] = Min(bh.calls, cfg.RequestsPerSecond)

\* Drained from full at creation, then 11 calls one second later: 10 admitted.
C4_Witness ==
    \E b \in BucketIds :
        LET bh == hist.bucket[b]
        IN  /\ bh.drained
            /\ bh.admits[bh.born] = cfg.Burst
            /\ bh.lastCall = bh.born + TicksPerSecond
            /\ bh.calls = 11
            /\ bh.admits[bh.lastCall] = 10

\* C5: every bucket holds between 0 and Burst tokens, and after a clock value
\* at which it admitted every call it holds at most Burst - 1.
C5_TokenInvariant ==
    \A b \in BucketIds :
        LET bh == hist.bucket[b]
        IN  /\ 0 <= buckets[b].tokens
            /\ buckets[b].tokens <= cfg.Burst * TicksPerSecond
            /\ (bh.lastCall # -1 /\ ~bh.rejected) =>
                   buckets[b].tokens <= (cfg.Burst - 1) * TicksPerSecond

\* A full bucket idled (its uncapped refill exceeds the capacity), then admitted
\* its first call and holds exactly Burst - 1 tokens.
C5_Witness ==
    \E b \in BucketIds :
        LET bh == hist.bucket[b]
        IN  /\ bh.lastCall > bh.born
            /\ BucketAdmits(b, 0, clock) = 1
            /\ bh.calls = 1
            /\ buckets[b].tokens = (cfg.Burst - 1) * TicksPerSecond

\* C6: a request whose Allow() returned false got status 429, Retry-After: 1
\* and the code RATE_LIMITED, and the downstream handler was not called.
C6_Rejection ==
    \A h \in Handlers :
        (pc[h] = "done" /\ ~allowed[h]) =>
            /\ resp[h].status = 429
            /\ resp[h].retryAfter = "1"
            /\ resp[h].code = "RATE_LIMITED"
            /\ resp[h].next = 0

C6_Witness ==
    \E h \in Handlers : pc[h] = "done" /\ ~allowed[h] /\ resp[h].status = 429

\* C7: a request whose Allow() returned true had the downstream handler called
\* exactly once, and the rate-limit handler set no status, header or body.
C7_Admission ==
    \A h \in Handlers :
        (pc[h] = "done" /\ allowed[h]) =>
            /\ resp[h].next = 1
            /\ resp[h].status = 0
            /\ resp[h].contentType = ""
            /\ resp[h].retryAfter = ""
            /\ resp[h].code = ""

C7_Witness ==
    \E h \in Handlers : pc[h] = "done" /\ allowed[h] /\ resp[h].next = 1

\* When a tick's pass over the map is complete, no key whose latest lookup
\* lies more than the TTL before the tick's clock reading is in the registry.
IdleGoneAfterPass ==
    epc = "unlock" =>
        \A k \in Keys :
            (Created(k) # {} /\ hist.lastLookup[k] < cutoff) => k \notin DOMAIN limiters

\* The cleanup goroutine has handled every tick sent so far, at least one.
TicksHandled == epc = "wait" /\ ~tickC /\ clock >= cfg.CleanupInterval

\* Every key in the registry was looked up within the last TTL plus one
\* cleanup interval.
OnlyRecentKeys ==
    \A k \in DOMAIN limiters :
        clock - hist.lastLookup[k] <= cfg.InactiveTTL + cfg.CleanupInterval

\* A tick whose pass compares against a cutoff later than t is waiting, being
\* handled, or still to be sent within the horizon.
TickDue(t) ==
    \/ epc = "wait" /\ tickC /\ clock - cfg.InactiveTTL > t
    \/ epc = "lock" /\ cutoff > t
    \/ \E s \in (clock + 1)..world.horizon :
           s % cfg.CleanupInterval = 0 /\ s - cfg.InactiveTTL > t

\* C8: an entry without a lookup for longer than the TTL is absent once the
\* next tick's pass is complete; under a fairly firing ticker every entry for
\* which such a tick is due is eventually removed unless it is looked up
\* again; and once the ticks sent have been handled the registry holds only
\* keys looked up within the last TTL plus one cleanup interval.
C8_IdleEvicted ==
    /\ []IdleGoneAfterPass
    /\ [](TicksHandled => OnlyRecentKeys)
    /\ \A k \in Keys, t \in Times :
           (k \in DOMAIN limiters /\ hist.lastLookup[k] = t /\ TickDue(t))
               ~> (k \notin DOMAIN limiters \/ hist.lastLookup[k] # t)

\* The pass removed an entry that had been idle for longer than the TTL.
C8_Witness ==
    /\ epc = "unlock"
    /\ \E k \in hist.gone : hist.lastLookup[k] < cutoff /\ k \notin DOMAIN limiters

\* C9 as claimed: no tick removes an entry that has been looked up at least
\* once every ttl/2 since its creation.
C9_ActiveSurvive == hist.goneRegular = {}

\* C10: an entry created by getLimiter holds a limiter no request has used, with
\* tokens = Burst, and its lastAccess is the clock reading of the creating
\* request; this holds too when an entry of the key was evicted before.
C10_FreshAfterEviction ==
    \A h \in Handlers :
        (pc[h] = "unlock" /\ path[h] = "create") =>
            /\ key[h] \in DOMAIN limiters
            /\ limiters[key[h]] = [limiter |-> lim[h], lastAccess |-> now[h]]
            /\ buckets[lim[h]].tokens = cfg.Burst * TicksPerSecond
            /\ hist.bucket[lim[h]].lastCall = -1
            /\ \A g \in Handlers \ {h} : lim[g] # lim[h]

\* The key's earlier entry was evicted with a drained bucket, and the request
\* that re-creates the entry read the clock after time 0.
C10_Witness ==
    \E h \in Handlers :
        /\ pc[h] = "unlock" /\ path[h] = "create"
        /\ hist.evictions[key[h]] >= 1
        /\ now[h] > 0
        /\ \E b \in Created(key[h]) \ {lim[h]} : buckets[b].tokens < TicksPerSecond

\* C11 as claimed: with a non-positive RequestsPerSecond or a non-positive
\* Burst no middleware comes out of RateLimiter: construction does not
\* complete and no handler of it ever serves a request.
C11_InvalidRejected ==
    (cfg.RequestsPerSecond <= 0 \/ cfg.Burst <= 0) =>
        /\ epc = "new"
        /\ \A h \in Handlers : pc[h] = "idle"

\* C12 as claimed: once the owner has issued its stop, no tick received by the
\* cleanup goroutine afterwards removes anything from the registry.
C12_StopHonoured == ~hist.afterStop

\* C13 as claimed: for every configuration and every request neither a handler
\* nor the process panics.
C13_FailOpen ==
    /\ epc # "panic"
    /\ \A h \in Handlers : pc[h] # "panic"

\* The whitespace-only strings, and "s is c with whitespace around it".
Spaces(n) == [i \in 1..n |-> " "]
TrimsTo(s, c) == \E i, j \in 0..Len(s) : s = Spaces(i) \o c \o Spaces(j)

\* c is the first comma-separated entry of s, trimmed.
FirstEntryTrimsTo(s, c) ==
    \E n \in 0..Len(s) :
        /\ n = Len(s) \/ s[n + 1] = ","
        /\ \A i \in 1..n : s[i] # ","
        /\ TrimsTo(SubSeq(s, 1, n), c)

\* C14: the key of a request is the first comma-separated entry of
\* X-Forwarded-For, trimmed, when that header is present and the entry is an IP
\* address; it is X-Real-IP, trimmed, when X-Forwarded-For is absent and that
\* value is an IP address; in both cases whatever the peer address is.
C14_KeyDerivation ==
    req.at = "keyed" =>
        \A c \in {<<"A">>, <<"B">>} :
            /\ (req.xff # <<>> /\ FirstEntryTrimsTo(req.xff, c)) => req.key = c
            /\ (req.xff = <<>> /\ req.xri # <<>> /\ TrimsTo(req.xri, c)) => req.key = c

\* X-Forwarded-For: 203.0.113.1, 10.0.0.1 gives the key 203.0.113.1.
C14_Witness ==
    /\ req.at = "keyed"
    /\ req.xff = <<"A", ",", " ", "B">>
    /\ req.key = <<"A">>
    /\ req.remoteAddr = <<"P", ":", "n">>

\* C15 as claimed: once Discontinue has been called on a product, its status
\* is never active again.
C15_NoReactivation ==
    (product.op # "none" /\ product.discontinued) => product.status # "active"

\* The amounts of a sequence of Money values.
AmountsOf(parts) == [i \in 1..Len(parts) |-> parts[i].Amount]

\* C16 as claimed: for n = 0 Split returns ErrDivisionByZero; for every other n
\* it returns n values in the original currency that sum to the original
\* amount, the first ones one unit larger than the others.
C16_SplitSums ==
    money.op = "Split" =>
        IF money.n = 0 THEN money.out.err = "ErrDivisionByZero"
        ELSE /\ ~money.out.panic
             /\ money.out.err = ""
             /\ Len(money.out.parts) = money.n
             /\ SumSeq(AmountsOf(money.out.parts)) = money.m.Amount
             /\ \A i \in 1..Len(money.out.parts) :
                    /\ money.out.parts[i].Currency = money.m.Currency
                    /\ money.out.parts[i].Amount - money.out.parts[Len(money.out.parts)].Amount
                           \in {0, 1}
                    /\ i > 1 => money.out.parts[i].Amount <= money.out.parts[i - 1].Amount

\* C17 as claimed: for a zero total of the ratios Allocate returns
\* ErrDivisionByZero; for every other list it returns one value per ratio and
\* the values sum to the original amount.
C17_AllocateSums ==
    money.op = "Allocate" =>
        IF SumSeq(money.ratios) = 0 THEN money.out.err = "ErrDivisionByZero"
        ELSE /\ ~money.out.panic
             /\ money.out.err = ""
             /\ Len(money.out.parts) = Len(money.ratios)
             /\ SumSeq(AmountsOf(money.out.parts)) = money.m.Amount

\* The steps of the cleanup goroutine: reading the clock on a tick, the pass
\* under the exclusive lock, the release.
TickRead == epc = "wait" /\ epc' = "lock"
TickPass == epc = "lock" /\ epc' = "unlock"
TickDone == epc = "unlock" /\ epc' = "wait"

\* C18: a tick computes cutoff = now - ttl; its pass takes the free lock
\* exclusively, removes exactly the entries with lastAccess < cutoff and leaves
\* the others with their limiter and lastAccess, and every limiter's tokens, as
\* they were; the lock is taken by that step only and released without another
\* change of the registry.
C18_TickPostcondition ==
    [][/\ TickRead => cutoff' = clock - cfg.InactiveTTL
       /\ TickPass =>
              /\ mu = [readers |-> {}, writer |-> "none"]
              /\ mu' = [readers |-> {}, writer |-> "evictor"]
              /\ DOMAIN limiters' = {k \in DOMAIN limiters : limiters[k].lastAccess >= cutoff}
              /\ \A k \in DOMAIN limiters' : limiters'[k] = limiters[k]
              /\ buckets' = buckets
       /\ (mu'.writer = "evictor" /\ mu.writer # "evictor") => TickPass
       /\ TickDone => (mu'.writer = "none" /\ limiters' = limiters /\ buckets' = buckets)
      ]_vars

\* A pass has removed one key's entry and kept the other's.
C18_Witness ==
    /\ epc = "unlock"
    /\ hist.gone # {}
    /\ DOMAIN limiters # {}
    /\ \A k \in DOMAIN limiters : limiters[k].lastAccess >= cutoff

\* C19 as claimed: after a tick's pass no entry is left whose idle time at the
\* tick, tick time minus lastAccess, is at least the TTL.
C19_IdleAtLeastTTL ==
    epc = "unlock" =>
        \A k \in DOMAIN limiters : (cutoff + cfg.InactiveTTL) - limiters[k].lastAccess < cfg.InactiveTTL

\* C19 amended: a tick's pass removes an entry exactly when its idle time at
\* the tick is more than the TTL; an entry idle for exactly the TTL stays.
C19_IdleOverTTL ==
    [][TickPass =>
          \A k \in DOMAIN limiters :
              k \notin DOMAIN limiters' <=>
                  (cutoff + cfg.InactiveTTL) - limiters[k].lastAccess > cfg.InactiveTTL
      ]_vars

\* A pass is complete and an entry idle for exactly the TTL is in the registry.
C19_Witness ==
    /\ epc = "unlock"
    /\ \E k \in DOMAIN limiters :
           /\ (cutoff + cfg.InactiveTTL) - limiters[k].lastAccess = cfg.InactiveTTL
           /\ cutoff > 0

\* Handler h's lookup step under the shared lock, and under the exclusive lock.
SharedLookup(h) == pc[h] = "rlock" /\ pc'[h] = "runlock"
ExclusiveLookup(h) == pc[h] = "lock" /\ pc'[h] = "unlock"

\* C20: a lookup that finds its key in the registry, under either lock,
\* constructs no limiter, changes no limiter's tokens, returns the limiter
\* stored for the key and stores the clock reading of this getLimiter call as
\* the entry's lastAccess.
C20_LookupExisting ==
    [][\A h \in Handlers :
          ((SharedLookup(h) \/ ExclusiveLookup(h)) /\ key[h] \in DOMAIN limiters) =>
              /\ buckets' = buckets
              /\ DOMAIN limiters' = DOMAIN limiters
              /\ limiters'[key[h]].limiter = limiters[key[h]].limiter
              /\ lim'[h] = limiters[key[h]].limiter
              /\ limiters'[key[h]].lastAccess = now[h]
              /\ now[h] <= clock
      ]_vars

\* One handler found the entry under the shared lock, the other at the second
\* check under the exclusive lock; the limiter has been used before, and the
\* entry carries the clock reading of the latest of these lookups.
C20_Witness ==
    \E g, h \in Handlers :
        /\ path[g] = "read" /\ path[h] = "recheck" /\ pc[h] = "unlock"
        /\ lim[g] = lim[h]
        /\ buckets[lim[h]].tokens < cfg.Burst * TicksPerSecond
        /\ limiters[key[h]].lastAccess = now[h]
        /\ now[h] > 0

\* C21 as claimed: the lastAccess of an entry never decreases while the entry
\* is in the registry.
C21_LastAccessMonotonic ==
    [][\A k \in DOMAIN limiters \cap DOMAIN limiters' :
          limiters'[k].lastAccess >= limiters[k].lastAccess]_vars

\* A step that stores into an entry of the registry or inserts one, and a
\* step that removes one.
Stamps(k) ==
    /\ k \in DOMAIN limiters'
    /\ k \in DOMAIN limiters => limiters'[k] # limiters[k]
Removes(k) == k \in DOMAIN limiters /\ k \notin DOMAIN limiters'

\* The handlers holding the shared lock, and those holding the exclusive lock.
ReadHolders == {h \in Handlers : pc[h] = "runlock"}
WriteHolders == {h \in Handlers : pc[h] = "unlock"}

\* C22: the lock is held exclusively or shared, never both, by the handlers
\* and the cleanup goroutine that are inside their critical sections; an entry
\* is stamped or inserted only by a step that takes the lock for a handler
\* while the cleanup goroutine does not hold it, and is then in the registry;
\* an entry is removed only by the step that takes the exclusive lock for the
\* cleanup goroutine, while no handler holds the lock.
C22_StampRemoveExclusive ==
    [][/\ mu.readers = ReadHolders
       /\ (mu.writer = "handler") = (WriteHolders # {})
       /\ (mu.writer = "evictor") = (epc = "unlock")
       /\ Cardinality(WriteHolders) <= 1
       /\ mu.writer # "none" => mu.readers = {}
       /\ \A k \in Keys :
              /\ Stamps(k) =>
                     /\ mu.writer # "evictor" /\ mu'.writer # "evictor"
                     /\ \E h \in Handlers :
                            /\ key[h] = k
                            /\ \/ h \in mu'.readers \ mu.readers
                               \/ (mu.writer = "none" /\ mu'.writer = "handler"
                                      /\ pc'[h] = "unlock")
              /\ Removes(k) =>
                     /\ mu = [readers |-> {}, writer |-> "none"]
                     /\ mu' = [readers |-> {}, writer |-> "evictor"]
      ]_vars

\* The cleanup goroutine holds the exclusive lock after removing the entry of
\* a key while a handler that wants to look that key up waits for the lock.
C22_Witness ==
    /\ epc = "unlock"
    /\ \E h \in Handlers : pc[h] = "rlock" /\ key[h] \in hist.gone

\* C23 as claimed: a handler about to call Allow() holds the limiter that the
\* registry has for its key.
C23_NoEvictedBucket ==
    \A h \in Handlers :
        pc[h] = "allow" =>
            /\ key[h] \in DOMAIN limiters
            /\ limiters[key[h]].limiter = lim[h]

\* Handler h is inside getLimiter or about to call Allow().
InFlight(h) == pc[h] \in {"rlock", "runlock", "lock", "unlock", "allow"}

\* C25: every request that entered getLimiter gets through getLimiter and
\* Allow(); a handler holds the shared lock only between RLock and RUnlock and
\* not when it asks for the exclusive lock, holds the exclusive lock only
\* until its return from getLimiter, and a lock that is held is released.
C25_LookupsTerminate ==
    /\ \A h \in Handlers : InFlight(h) ~> pc[h] \in {"respond", "done"}
    /\ (mu.writer # "none" \/ mu.readers # {}) ~> (mu.writer = "none" /\ mu.readers = {})
    /\ [](\A h \in Handlers :
              /\ h \in mu.readers <=> pc[h] = "runlock"
              /\ pc[h] = "unlock" => mu.writer = "handler"
              /\ mu.writer = "handler" => \E g \in Handlers : pc[g] = "unlock")

\* A handler asks for the exclusive lock while the other handler holds the
\* shared lock and the cleanup goroutine asks for the exclusive lock too.
C25_Witness ==
    \E g, h \in Handlers :
        /\ pc[h] = "lock"
        /\ pc[g] = "runlock" /\ g \in mu.readers
        /\ epc = "lock"

\* The request's headers give the IP address c as candidate.
CandidateIs(c) ==
    \/ req.xff # <<>> /\ FirstEntryTrimsTo(req.xff, c)
    \/ req.xff = <<>> /\ req.xri # <<>> /\ TrimsTo(req.xri, c)

\* k is the peer address addr without its port.
PeerOf(addr, k) ==
    /\ \A i \in 1..Len(k) : k[i] # ":"
    /\ \/ addr = k
       \/ \E n \in 1..Len(addr) : addr[n] = ":" /\ k = SubSeq(addr, 1, n - 1)

\* C26: when the headers give no IP address as candidate, be it because both
\* are absent, because the candidate is no IP address, or because
\* X-Forwarded-For is present with an invalid first entry whatever X-Real-IP
\* holds, the key is the peer address; and every request gets a key.
C26_KeyFallback ==
    req.at = "keyed" =>
        /\ req.key # <<>>
        /\ (~\E c \in {<<"A">>, <<"B">>} : CandidateIs(c)) => PeerOf(req.remoteAddr, req.key)

\* X-Forwarded-For: not-an-ip with X-Real-IP holding an IP address: the key is
\* the peer's host.
C26_Witness ==
    /\ req.at = "keyed"
    /\ req.xff = <<"x">>
    /\ req.xri = <<"A">>
    /\ req.remoteAddr = <<"P", ":", "n">>
    /\ req.key = <<"P">>

\* C27: a DeductStock or AddStock call that returns an error leaves every field
\* of the product as it was, and after any sequence of operations on a product
\* built by NewProduct the stock quantity is at least zero.
C27_StockNeverNegative ==
    [][product'.op # "none" =>
          /\ (product'.op \in {"DeductStock", "AddStock"} /\ product'.err # ""
                 => product' = Failed(product'.op, product'.err))
          /\ ~LessInt(product'.stock, GoInt(0))]_vars

\* C28: after any sequence of calls an active product has a positive stock, an
\* out-of-stock product has a stock of zero, and IsAvailable() holds exactly
\* when the status is active.
C28_StatusStockConsistent ==
    product.op # "none" =>
        /\ (product.status = "active" => LessInt(GoInt(0), product.stock))
        /\ (product.status = "out_of_stock" => product.stock = GoInt(0))
        /\ (IsAvailable <=> product.status = "active")

\* The key a step of handler h works for: the one it holds, or the one it takes.
KeyOf(h) == IF key[h] # "" THEN key[h] ELSE key'[h]

\* The tokens a bucket holds at time t according to its own record alone: it
\* starts full, gains its rate per tick up to its capacity and loses one token
\* per admission.
RECURSIVE OwnTokens(_, _, _)
OwnTokens(bh, bk, t) ==
    IF t <= bh.born
    THEN bk.capacity - bh.admits[t] * TicksPerSecond
    ELSE Min(bk.capacity, OwnTokens(bh, bk, t - 1) + bk.refillRate)
             - bh.admits[t] * TicksPerSecond

\* C29: a step of a request for key A leaves the registry entry of every other
\* key and every bucket created for another key as they were, the limiter a
\* request holds is one created for its own key, and the tokens of a bucket
\* (hence whether it admits) follow from the calls made on that bucket alone.
C29_PerKeyIndependence ==
    [][/\ \A h \in Handlers :
              pc'[h] # pc[h] =>
                  /\ \A k \in DOMAIN limiters \ {KeyOf(h)} :
                         k \in DOMAIN limiters' /\ limiters'[k] = limiters[k]
                  /\ \A b \in BucketIds :
                         hist.bucket[b].key # KeyOf(h) =>
                             buckets'[b] = buckets[b] /\ hist'.bucket[b] = hist.bucket[b]
       /\ \A h \in Handlers : lim'[h] # 0 => hist'.bucket[lim'[h]].key = key'[h]
       /\ \A b \in 1..Len(buckets') :
              buckets'[b].tokens =
                  OwnTokens(hist'.bucket[b], buckets'[b], buckets'[b].lastRefill)]_vars

\* Both keys have an entry; the bucket of one has just rejected a call and the
\* bucket of the other has admitted one at that time or later.
C29_Witness ==
    \E ka \in DOMAIN limiters, kb \in DOMAIN limiters :
        LET ha == hist.bucket[limiters[ka].limiter]
            hb == hist.bucket[limiters[kb].limiter]
        IN  /\ ka # kb
            /\ ha.calls > 0 /\ ha.rejected
            /\ hb.calls > 0 /\ ~hb.rejected
            /\ hb.lastCall >= ha.lastCall

\* C30: the response of a request is written by exactly one of the downstream
\* handler and the timeout branch: all calls on the response writer come from
\* one goroutine, and once the timeout branch has been taken the response is
\* its own alone.
C30_OneResponse ==
    /\ \A i \in DOMAIN tmo.log, j \in DOMAIN tmo.log : tmo.log[i].by = tmo.log[j].by
    /\ tmo.mw \in {"status", "body"} => tmo.next \notin {"status", "body"}

====
